---- MODULE Spec2Model ----
(***************************************************************************)
(* Model of pkg/git Fetcher.Fetch: resolve credentials, clone into a       *)
(* scratch directory, fetch, resolve the revision, check it out, replace   *)
(* the destination directory by a copy of the scratch directory and write  *)
(* project-metadata.toml.                                                  *)
(***************************************************************************)
EXTENDS Integers, Sequences, FiniteSets, TLC

(* ------------------------------------------------------------------ *)
(* Bounds of the model.                                                *)
(* ------------------------------------------------------------------ *)

\* Number of Fetch invocations explored in one behaviour.
MaxCalls == 2

\* Goroutines that call Fetch; Caller is the one that does so in turn.
Procs == {"caller", "other"}

Caller == "caller"

(* ------------------------------------------------------------------ *)
(* Errors: an error is the chain of its messages, outermost first;     *)
(* nil is the empty chain.                                             *)
(* ------------------------------------------------------------------ *)

Nil == <<>>

\* errors.Wrap / errors.Wrapf: prefix the cause with a message.
Wrap(err, msg) == <<msg>> \o err

\* transport.ErrAuthenticationRequired
ErrAuthenticationRequired == <<"authentication required">>

\* Other errors remote.Fetch returns.
OtherFetchErrors ==
    { <<"repository not found">>,
      <<"dial tcp: connection refused">> }

(* ------------------------------------------------------------------ *)
(* Commits, hashes and revisions.                                      *)
(* ------------------------------------------------------------------ *)

\* plumbing.Hash, narrowed to one byte.  0 is the zero hash, never a commit.
Hashes == {17, 42}

HexDigits == <<"0", "1", "2", "3", "4", "5", "6", "7",
               "8", "9", "a", "b", "c", "d", "e", "f">>

\* plumbing.Hash.String: lower-case hex of the hash bytes.
HashString(h) == HexDigits[(h \div 16) + 1] \o HexDigits[(h % 16) + 1]

\* Revision strings a caller passes.
Revisions == {"main", "2a", "refs/heads/does-not-exist"}

\* Repository URLs a caller passes; the second one requires credentials.
URLs == {"https://h/pub", "https://h/priv"}

Private(url) == url = "https://h/priv"

\* Authentication material the keychain can hand out (nil = anonymous).
Auths == {"anonymous", "basic:good", "basic:bad"}

\* The remote accepts the request: public, or the right credential.
Accepted(url, a) == ~Private(url) \/ a = "basic:good"

\* Refs of the remote: two branches at different commits.
RemoteRefs == [main |-> 17, dev |-> 42]

\* Refs of a repository nothing was fetched into.
NoRefs == [r \in {} |-> 0]

\* Commits reachable from a set of refs.
Objects(refs) == {refs[r] : r \in DOMAIN refs}

\* repository.ResolveRevision over the fetched refs: a ref name, or the hex
\* id of a fetched commit; 0 when nothing matches (an error).
ResolveRevision(refs, rev) ==
    IF rev \in DOMAIN refs THEN refs[rev]
    ELSE IF \E h \in Objects(refs) : HashString(h) = rev
         THEN CHOOSE h \in Objects(refs) : HashString(h) = rev
         ELSE 0

(* ------------------------------------------------------------------ *)
(* HTTPS_PROXY and url.Parse.  A value is a sequence of characters.    *)
(* ------------------------------------------------------------------ *)

IsLetter(c) == c \in {"h", "p"}

IsDigit(c) == c \in {"1", "2", "5"}

\* Value of a hex digit, 16 when the character is none.
HexValue(c) ==
    IF \E i \in 1..16 : HexDigits[i] = c
    THEN (CHOOSE i \in 1..16 : HexDigits[i] = c) - 1
    ELSE 16

\* strings.Index / strings.LastIndex of one character; 0 when absent.
IndexOf(s, c) ==
    IF \E i \in 1..Len(s) : s[i] = c
    THEN CHOOSE i \in 1..Len(s) : s[i] = c /\ \A j \in 1..(i-1) : s[j] # c
    ELSE 0

LastIndexOf(s, c) ==
    IF \E i \in 1..Len(s) : s[i] = c
    THEN CHOOSE i \in 1..Len(s) : s[i] = c /\ \A j \in (i+1)..Len(s) : s[j] # c
    ELSE 0

HasPrefix(s, pre) == Len(s) >= Len(pre) /\ SubSeq(s, 1, Len(pre)) = pre

\* url.getScheme: the position that ends the scan for a scheme (0: the
\* whole string is letters, or digits after the first character).
SchemeStop(s) ==
    LET stops == {i \in 1..Len(s) :
                    ~IsLetter(s[i]) /\ ~(IsDigit(s[i]) /\ i > 1)}
    IN IF stops = {} THEN 0
       ELSE CHOOSE i \in stops : \A j \in stops : i <= j

\* url.unescape's validation: every % starts a two-digit hex escape; in a
\* host only %25 and escapes of non-ASCII bytes are allowed.
ValidEscapes(s, inHost) ==
    \A i \in 1..Len(s) :
        s[i] = "%" =>
            /\ i + 2 <= Len(s)
            /\ HexValue(s[i+1]) < 16
            /\ HexValue(s[i+2]) < 16
            /\ inHost => (HexValue(s[i+1]) >= 8 \/ SubSeq(s, i, i+2) = <<"%", "2", "5">>)

\* url.validOptionalPort on the text from the last colon of the host on.
ValidOptionalPort(port) ==
    \A i \in 2..Len(port) : IsDigit(port[i])

\* url.parseHost: the port after the last colon is digits, the escapes are
\* valid and no character needs escaping (here: no space).
HostError(host) ==
    LET i == LastIndexOf(host, ":")
    IN IF i # 0 /\ ~ValidOptionalPort(SubSeq(host, i, Len(host)))
       THEN <<"invalid port after host">>
       ELSE IF ~ValidEscapes(host, TRUE) THEN <<"invalid URL escape">>
       ELSE IF \E k \in 1..Len(host) : host[k] = " "
            THEN <<"invalid character in host name">>
       ELSE Nil

NoURL == [scheme |-> <<>>, opaque |-> <<>>, host |-> <<>>, path |-> <<>>]

\* url.Parse (no fragment, query or userinfo in the alphabet): the parsed
\* URL and the error.
UrlParse(raw) ==
    LET stop   == SchemeStop(raw)
        colon  == stop # 0 /\ raw[stop] = ":"
        scheme == IF colon THEN SubSeq(raw, 1, stop - 1) ELSE <<>>
        rest   == IF colon THEN SubSeq(raw, stop + 1, Len(raw)) ELSE raw
        slash  == IndexOf(rest, "/")
        seg    == IF slash = 0 THEN rest ELSE SubSeq(rest, 1, slash - 1)
        hasAuth == HasPrefix(rest, <<"/", "/">>) /\
                   (scheme # <<>> \/ ~HasPrefix(rest, <<"/", "/", "/">>))
        after  == SubSeq(rest, 3, Len(rest))
        cut    == IndexOf(after, "/")
        host   == IF ~hasAuth THEN <<>>
                  ELSE IF cut = 0 THEN after ELSE SubSeq(after, 1, cut - 1)
        path   == IF ~hasAuth THEN rest
                  ELSE IF cut = 0 THEN <<>> ELSE SubSeq(after, cut, Len(after))
    IN IF colon /\ stop = 1
       THEN [url |-> NoURL, err |-> <<"missing protocol scheme">>]
       ELSE IF ~HasPrefix(rest, <<"/">>) /\ scheme # <<>>
       THEN [url |-> [NoURL EXCEPT !.scheme = scheme, !.opaque = rest],
             err |-> Nil]
       ELSE IF ~HasPrefix(rest, <<"/">>) /\ IndexOf(seg, ":") # 0
       THEN [url |-> NoURL,
             err |-> <<"first path segment in URL cannot contain colon">>]
       ELSE IF HostError(host) # Nil
       THEN [url |-> NoURL, err |-> HostError(host)]
       ELSE IF ~ValidEscapes(path, FALSE)
       THEN [url |-> NoURL, err |-> <<"invalid URL escape">>]
       ELSE [url |-> [scheme |-> scheme, opaque |-> <<>>,
                      host |-> host, path |-> path],
             err |-> Nil]

\* Values HTTPS_PROXY takes in the model.
ProxyValues ==
    { <<"h", ":", "/", "/", "p">>,
      <<"%">> }

\* url.Parse of each of these values.
ParsedProxy == [v \in ProxyValues |-> UrlParse(v)]

\* os.LookupEnv("HTTPS_PROXY"): the value and whether it is set.
EnvValues ==
    {[exists |-> FALSE, value |-> <<>>]} \cup
    {[exists |-> TRUE, value |-> v] : v \in ProxyValues}

\* Request timeout of the proxy client, in seconds.
ProxyTimeout == 15

\* The nil transport.
NoTransport == [kind |-> "none", proxy |-> NoURL, timeout |-> 0,
                followRedirects |-> FALSE, builtBy |-> ""]

\* githttp.DefaultClient, the one client of the package.
DefaultClient == [kind |-> "default", proxy |-> NoURL, timeout |-> 0,
                  followRedirects |-> TRUE, builtBy |-> ""]

\* Mutant: a value that does not parse is ignored and the default client is
\* used, bypassing the proxy without a word.
getHttpsTransportIgnoringParseError(e) ==
    IF e.exists /\ UrlParse(e.value).err = Nil
    THEN [transport |-> [kind |-> "proxy", proxy |-> UrlParse(e.value).url,
                         timeout |-> ProxyTimeout, followRedirects |-> FALSE,
                         builtBy |-> ""],
          err |-> Nil]
    ELSE [transport |-> DefaultClient, err |-> Nil]

\* Mutant: the proxy client has no CheckRedirect and follows redirects.
getHttpsTransportFollowingRedirects(e) ==
    IF e.exists
    THEN LET parsed == UrlParse(e.value)
         IN IF parsed.err # Nil
            THEN [transport |-> NoTransport,
                  err |-> Wrap(parsed.err, "parsing HTTPS_PROXY url")]
            ELSE [transport |-> [kind |-> "proxy", proxy |-> parsed.url,
                                 timeout |-> ProxyTimeout,
                                 followRedirects |-> TRUE,
                                 builtBy |-> ""],
                  err |-> Nil]
    ELSE [transport |-> DefaultClient, err |-> Nil]

\* getHttpsTransport: the transport and the error for an environment value.
getHttpsTransport(e) ==
    IF e.exists
    THEN LET parsed == UrlParse(e.value)
         IN IF parsed.err # Nil
            THEN [transport |-> NoTransport,
                  err |-> Wrap(parsed.err, "parsing HTTPS_PROXY url")]
            ELSE [transport |-> [kind |-> "proxy", proxy |-> parsed.url,
                                 timeout |-> ProxyTimeout,
                                 followRedirects |-> FALSE,
                                 builtBy |-> ""],
                  err |-> Nil]
    ELSE [transport |-> DefaultClient, err |-> Nil]

\* Lines 131-138: &http.Client{...} and githttp.NewClient allocate a client
\* of their own in every call of getHttpsTransport; builtBy tells the
\* clients of the goroutines apart.  The default client is shared.
NewClient(t, p) == IF t.kind = "proxy" THEN [t EXCEPT !.builtBy = p] ELSE t


(* ------------------------------------------------------------------ *)
(* Directories.  A directory holds entries: records with a path (the   *)
(* names from the directory down), a kind, data and permission bits.   *)
(* ------------------------------------------------------------------ *)

File(path, data, mode) ==
    [path |-> path, isDir |-> FALSE, data |-> data, mode |-> mode]

Dir(path, mode) ==
    [path |-> path, isDir |-> TRUE, data |-> "", mode |-> mode]

\* A directory that does not exist.
NoDir == [exists |-> FALSE, mode |-> "", files |-> {}]

\* Working tree of a commit.
Tree(h) ==
    IF h = 17
    THEN { File(<<"run.sh">>, "run@" \o HashString(h), "0755") }
    ELSE { Dir(<<"lib">>, "0755"),
           File(<<"lib", "b">>, "b@" \o HashString(h), "0600") }

\* gogit.PlainInit(tmpDir, false): a non-bare repository keeps its
\* metadata in the .git directory of the working tree.
GitDir ==
    { Dir(<<".git">>, "0755"),
      File(<<".git", "config">>, "[core]", "0644") }

\* The index worktree.Checkout writes: besides the hashes it records, for
\* every file checked out, the times, device and inode the file has in the
\* scratch directory, so it is particular to that directory (n: its number).
GitIndex(h, n) ==
    File(<<".git", "index">>,
         "index " \o HashString(h) \o " of git-clone-" \o HexDigits[n + 1],
         "0644")

\* The entry is (inside) the repository's metadata directory.
InGitDir(f) == f.path[1] = ".git"

\* Replace or add the entry at f's path.
PutFile(files, f) == {g \in files : g.path # f.path} \cup {f}

\* Every path of the model, in the order copyDir visits them: os.ReadDir
\* sorts by file name and copyDir descends into a directory at once.
PathOrder ==
    << <<".git">>, <<".git", "config">>, <<".git", "index">>,
       <<"lib">>, <<"lib", "b">>, <<"old">>, <<"run.sh">> >>

Paths(files) == {f.path : f \in files}

CopyOrder(files) == SelectSeq(PathOrder, LAMBDA q : q \in Paths(files))

EntryAt(files, path) == CHOOSE f \in files : f.path = path

\* What os.RemoveAll can leave behind when it fails: the directory itself
\* and a set of entries in which every entry still has its parent.
Residues(files) ==
    {S \in SUBSET files :
        \A f \in S : Len(f.path) > 1 =>
            \E d \in S : d.isDir /\ d.path = SubSeq(f.path, 1, Len(f.path) - 1)}

\* Permission bits of a newly created file: 0666 less the umask 022.
CreateMode == "0644"

\* Permission bits os.MkdirTemp gives the scratch directory.
TempMode == "0700"

\* The states copyFile can leave dstPath in, with the error it returns:
\* failure to open or create changes nothing; os.Create truncates (an
\* existing file keeps its bits); a failed io.Copy leaves no data; a failed
\* Stat or Chmod leaves the data without the source's bits.
copyFile(files, src) ==
    LET old  == {g \in files : g.path = src.path /\ ~g.isDir}
        bits == IF old = {} THEN CreateMode ELSE (CHOOSE g \in old : TRUE).mode
    IN { [files |-> files, err |-> <<"open: permission denied">>],
         [files |-> files, err |-> <<"create: permission denied">>],
         [files |-> PutFile(files, File(src.path, "", bits)),
          err |-> <<"copy: no space left on device">>],
         [files |-> PutFile(files, File(src.path, src.data, bits)),
          err |-> <<"chmod: operation not permitted">>],
         [files |-> PutFile(files, File(src.path, src.data, src.mode)),
          err |-> Nil] }

\* The states the head of copyDir (Stat, MkdirAll, ReadDir, getFileInfos)
\* can leave the directory entry at src.path in.
copySubDir(files, src) ==
    LET made == IF \E g \in files : g.path = src.path THEN files
                ELSE files \cup {Dir(src.path, src.mode)}
    IN { [files |-> files, err |-> <<"mkdir: permission denied">>],
         [files |-> made, err |-> <<"readdir: input/output error">>],
         [files |-> made, err |-> Nil] }

\* One iteration of copyDir's loop (lines 192-205) on entry src.
copyEntry(files, src) ==
    IF src.isDir THEN copySubDir(files, src) ELSE copyFile(files, src)

(* ------------------------------------------------------------------ *)
(* project-metadata.toml                                               *)
(* ------------------------------------------------------------------ *)

\* Mutant: the requested revision is recorded as the commit.
projectRevisionAsCommit(gitURL, gitRevision, hash) ==
    [type |-> "git", repository |-> gitURL, revision |-> gitRevision,
     commit |-> gitRevision]

\* Mutant: the resolved hash is recorded as the revision too.
projectResolvedAsRevision(gitURL, gitRevision, hash) ==
    [type |-> "git", repository |-> gitURL, revision |-> HashString(hash),
     commit |-> HashString(hash)]

\* The project struct as encoded to TOML.
project(gitURL, gitRevision, hash) ==
    [type |-> "git", repository |-> gitURL, revision |-> gitRevision,
     commit |-> HashString(hash)]

\* A file with nothing (complete) written to it.
EmptyToml == [type |-> "", repository |-> "", revision |-> "", commit |-> ""]

NoFile == [exists |-> FALSE, content |-> EmptyToml]

\* Error context of the two metadata failures (lines 99 and 116).
MetadataMsg(what) ==
    "invalid metadata destination 'metadataDir/project-metadata.toml' for git repository: "
        \o what

\* Mutant: the authentication-required case is not told apart.
FetchOutcomeUnclassified(err) ==
    IF err # Nil
    THEN Wrap(err, "unable to fetch references for repository")
    ELSE Nil

\* Lines 63-67: the error Fetch returns for the error of remote.Fetch.
FetchOutcome(err) ==
    IF err # Nil /\ err # ErrAuthenticationRequired
    THEN Wrap(err, "unable to fetch references for repository")
    ELSE IF err = ErrAuthenticationRequired
    THEN Wrap(err, "invalid credentials for repository")
    ELSE Nil

(* ------------------------------------------------------------------ *)
(* State.                                                              *)
(* ------------------------------------------------------------------ *)

VARIABLES
    pc,         \* pc[p]: the statement of Fetch invocation p is at
    inv,        \* inv[p]: arguments, locals and result of invocation p
    tmp,        \* the scratch directories os.MkdirTemp has created, by number
    dest,       \* the destination directory (dir)
    md,         \* project-metadata.toml in the metadata directory
    registry,   \* the https entry of go-git's client protocol registry
    env,        \* HTTPS_PROXY in the process environment
    calls,      \* Fetch invocations started so far
    enqueuer,   \* the workQueueEnqueuer (its delay field, in seconds)
    workqueue,  \* what enqueueAfter has been asked to schedule, in order
    returned    \* the calls of Enqueue that have returned, in order

vars ==
    <<pc, inv, tmp, dest, md, registry, env, calls,
      enqueuer, workqueue, returned>>

\* The state of the source resolver's enqueuer.
enqVars == <<enqueuer, workqueue, returned>>

\* The state Fetch works on.
fetchVars == <<pc, inv, tmp, dest, md, registry, env, calls>>

\* A scratch directory as os.MkdirTemp leaves it; fetched tells whether the
\* repository in it holds the remote's refs and objects.
EmptyScratch ==
    [exists |-> TRUE, mode |-> TempMode, files |-> {}, fetched |-> FALSE]

\* The locals of an invocation that has not started.
IdleInv ==
    [url |-> "", rev |-> "", auth |-> "none", tmpDir |-> 0,
     transport |-> NoTransport, envRead |-> [exists |-> FALSE, value |-> <<>>],
     used |-> NoTransport, fetchErr |-> Nil, netCalls |-> 0, hash |-> 0,
     queue |-> <<>>, err |-> Nil, failedAt |-> "",
     dest0 |-> NoDir, md0 |-> NoFile, registry0 |-> NoTransport]

\* Contents the destination may hold before the first invocation.
PriorDests ==
    { NoDir,
      [exists |-> TRUE, mode |-> "0755",
       files |-> {File(<<"old">>, "stale", "0644")}] }

Init ==
    /\ pc = [p \in Procs |-> "idle"]
    /\ inv = [p \in Procs |-> IdleInv]
    /\ tmp = <<>>
    /\ dest \in PriorDests
    /\ md = NoFile
    /\ registry = DefaultClient
    /\ env \in EnvValues
    /\ calls = 0
    /\ enqueuer = [delay |-> 0]
    /\ workqueue = <<>>
    /\ returned = <<>>

\* The invocation's scratch directory.
Scratch(p) == tmp[inv[p].tmpDir]

\* The refs of the repository in the invocation's scratch directory.
ScratchRefs(p) == IF Scratch(p).fetched THEN RemoteRefs ELSE NoRefs

\* Fetch returns err from the named stage.
Fail(p, stage, err) ==
    /\ pc' = [pc EXCEPT ![p] = "done"]
    /\ inv' = [inv EXCEPT ![p].err = err, ![p].failedAt = stage]

\* The statement at pc[p] succeeded; control moves to next.
Goto(p, next) == pc' = [pc EXCEPT ![p] = next]

(* ------------------------------------------------------------------ *)
(* Fetch, statement by statement.                                      *)
(* ------------------------------------------------------------------ *)

\* A caller invokes Fetch(dir, gitURL, gitRevision, metadataDir).
Call(p, gitURL, gitRevision) ==
    /\ pc[p] = "idle"
    /\ calls < MaxCalls
    /\ calls' = calls + 1
    /\ pc' = [pc EXCEPT ![p] = "resolve"]
    /\ inv' = [inv EXCEPT ![p] = [IdleInv EXCEPT !.url = gitURL,
                                                  !.rev = gitRevision,
                                                  !.dest0 = dest,
                                                  !.md0 = md,
                                                  !.registry0 = registry]]
    /\ UNCHANGED <<tmp, dest, md, registry, env>>
    /\ UNCHANGED enqVars

\* Mutant: a keychain answer without a credential is treated as a failure.
ResolveRejectingAnonymous(p) ==
    /\ pc[p] = "resolve"
    /\ \/ Fail(p, "resolve", <<"keychain: malformed secret">>)
       \/ \E a \in Auths :
            IF a = "anonymous"
            THEN /\ pc' = [pc EXCEPT ![p] = "done"]
                 /\ inv' = [inv EXCEPT ![p].auth = a,
                                       ![p].err = <<"no credentials for repository">>,
                                       ![p].failedAt = "resolve"]
            ELSE /\ inv' = [inv EXCEPT ![p].auth = a]
                 /\ Goto(p, "mkdirtemp")
    /\ UNCHANGED <<tmp, dest, md, registry, env, calls>>
    /\ UNCHANGED enqVars

\* Mutant: the scratch directory is made before the keychain is asked.
ResolveAfterMkdirTemp(p) ==
    /\ pc[p] = "resolve"
    /\ \/ /\ Fail(p, "resolve", <<"keychain: malformed secret">>)
          /\ tmp' = Append(tmp, EmptyScratch)
       \/ /\ \E a \in Auths :
               /\ inv' = [inv EXCEPT ![p].auth = a]
               /\ Goto(p, "mkdirtemp")
          /\ UNCHANGED tmp
    /\ UNCHANGED <<dest, md, registry, env, calls>>
    /\ UNCHANGED enqVars

\* Lines 30-33: f.Keychain.Resolve(gitURL).
Resolve(p) ==
    /\ pc[p] = "resolve"
    /\ \/ Fail(p, "resolve", <<"keychain: malformed secret">>)
       \/ \E a \in Auths :
            /\ inv' = [inv EXCEPT ![p].auth = a]
            /\ Goto(p, "mkdirtemp")
    /\ UNCHANGED <<tmp, dest, md, registry, env, calls>>
    /\ UNCHANGED enqVars

\* Mutant: the scratch directory has one fixed name, made if missing.
MkdirTempFixedName(p) ==
    /\ pc[p] = "mkdirtemp"
    /\ \/ /\ Fail(p, "mkdirtemp", <<"mkdir: no space left on device">>)
          /\ UNCHANGED tmp
       \/ /\ tmp' = IF tmp = <<>> THEN Append(tmp, EmptyScratch) ELSE tmp
          /\ inv' = [inv EXCEPT ![p].tmpDir = 1]
          /\ Goto(p, "plaininit")
    /\ UNCHANGED <<dest, md, registry, env, calls>>
    /\ UNCHANGED enqVars

\* Lines 35-38: os.MkdirTemp("", "git-clone-") makes a new directory.
MkdirTemp(p) ==
    /\ pc[p] = "mkdirtemp"
    /\ \/ /\ Fail(p, "mkdirtemp", <<"mkdir: no space left on device">>)
          /\ UNCHANGED tmp
       \/ /\ tmp' = Append(tmp, EmptyScratch)
          /\ inv' = [inv EXCEPT ![p].tmpDir = Len(tmp) + 1]
          /\ Goto(p, "plaininit")
    /\ UNCHANGED <<dest, md, registry, env, calls>>
    /\ UNCHANGED enqVars

\* Lines 40-43: gogit.PlainInit(tmpDir, false).
PlainInit(p) ==
    /\ pc[p] = "plaininit"
    /\ \/ /\ Fail(p, "plaininit",
                  Wrap(<<"init: input/output error">>, "initializing repo"))
          /\ UNCHANGED tmp
       \/ /\ tmp' = [tmp EXCEPT ![inv[p].tmpDir].files = GitDir]
          /\ Goto(p, "createremote")
          /\ UNCHANGED inv
    /\ UNCHANGED <<dest, md, registry, env, calls>>
    /\ UNCHANGED enqVars

\* Lines 45-51: repository.CreateRemote(origin, gitURL) writes the config.
CreateRemote(p) ==
    /\ pc[p] = "createremote"
    /\ \/ /\ Fail(p, "createremote",
                  Wrap(<<"config: input/output error">>, "creating remote"))
          /\ UNCHANGED tmp
       \/ /\ tmp' = [tmp EXCEPT ![inv[p].tmpDir].files =
                        PutFile(@, File(<<".git", "config">>,
                                        "[core] [remote origin]", "0644"))]
          /\ Goto(p, "transport")
          /\ UNCHANGED inv
    /\ UNCHANGED <<dest, md, registry, env, calls>>
    /\ UNCHANGED enqVars

\* Mutant: a proxy transport found in the registry is left installed.
TransportKeepingInstalled(p) ==
    /\ pc[p] = "transport"
    /\ LET built == getHttpsTransport(env)
       IN IF built.err # Nil
          THEN /\ pc' = [pc EXCEPT ![p] = "done"]
               /\ inv' = [inv EXCEPT ![p].err = built.err,
                                     ![p].failedAt = "transport",
                                     ![p].envRead = env]
               /\ UNCHANGED registry
          ELSE /\ inv' = [inv EXCEPT ![p].transport =
                                         NewClient(built.transport, p),
                                     ![p].envRead = env]
               /\ registry' = IF registry.kind = "proxy"
                              THEN registry
                              ELSE NewClient(built.transport, p)
               /\ Goto(p, "fetch")
    /\ UNCHANGED <<tmp, dest, md, env, calls>>
    /\ UNCHANGED enqVars

\* Lines 53-57: getHttpsTransport() and client.InstallProtocol("https", _).
Transport(p) ==
    /\ pc[p] = "transport"
    /\ LET built == getHttpsTransport(env)
       IN IF built.err # Nil
          THEN /\ pc' = [pc EXCEPT ![p] = "done"]
               /\ inv' = [inv EXCEPT ![p].err = built.err,
                                     ![p].failedAt = "transport",
                                     ![p].envRead = env]
               /\ UNCHANGED registry
          ELSE /\ inv' = [inv EXCEPT ![p].transport =
                                         NewClient(built.transport, p),
                                     ![p].envRead = env]
               /\ registry' = NewClient(built.transport, p)
               /\ Goto(p, "fetch")
    /\ UNCHANGED <<tmp, dest, md, env, calls>>
    /\ UNCHANGED enqVars

\* The errors remote.Fetch can return for the invocation's URL and
\* credential: nil only when the remote accepts the request,
\* authentication-required only when it does not.
FetchErrors(p) ==
    OtherFetchErrors
        \cup (IF Accepted(inv[p].url, inv[p].auth)
              THEN {Nil} ELSE {ErrAuthenticationRequired})

\* Mutant: a failed remote.Fetch is tried once more before giving up.
RemoteFetchRetrying(p) ==
    /\ pc[p] = "fetch"
    /\ \E e \in FetchErrors(p) :
         LET seen == [inv[p] EXCEPT !.netCalls = @ + 1,
                                    !.used = registry,
                                    !.fetchErr = e]
         IN IF FetchOutcome(e) # Nil
            THEN /\ pc' = [pc EXCEPT ![p] = IF inv[p].netCalls = 0
                                            THEN "fetch" ELSE "done"]
                 /\ inv' = [inv EXCEPT ![p] =
                              IF inv[p].netCalls = 0
                              THEN seen
                              ELSE [seen EXCEPT !.err = FetchOutcome(e),
                                                !.failedAt = "fetch"]]
                 /\ UNCHANGED tmp
            ELSE /\ inv' = [inv EXCEPT ![p] = seen]
                 /\ tmp' = [tmp EXCEPT ![inv[p].tmpDir].fetched = TRUE]
                 /\ Goto(p, "worktree")
    /\ UNCHANGED <<dest, md, registry, env, calls>>
    /\ UNCHANGED enqVars

\* Mutant: remote.Fetch is given the transport the invocation built.
RemoteFetchOwnTransport(p) ==
    /\ pc[p] = "fetch"
    /\ \E e \in FetchErrors(p) :
         LET seen == [inv[p] EXCEPT !.netCalls = @ + 1,
                                    !.used = inv[p].transport,
                                    !.fetchErr = e]
         IN IF FetchOutcome(e) # Nil
            THEN /\ pc' = [pc EXCEPT ![p] = "done"]
                 /\ inv' = [inv EXCEPT ![p] =
                              [seen EXCEPT !.err = FetchOutcome(e),
                                           !.failedAt = "fetch"]]
                 /\ UNCHANGED tmp
            ELSE /\ inv' = [inv EXCEPT ![p] = seen]
                 /\ tmp' = [tmp EXCEPT ![inv[p].tmpDir].fetched = TRUE]
                 /\ Goto(p, "worktree")
    /\ UNCHANGED <<dest, md, registry, env, calls>>
    /\ UNCHANGED enqVars

\* Lines 59-67: remote.Fetch(refs/*:refs/*, auth) over the registry's https
\* transport, and the classification of its error.
RemoteFetch(p) ==
    /\ pc[p] = "fetch"
    /\ \E e \in FetchErrors(p) :
         LET seen == [inv[p] EXCEPT !.netCalls = @ + 1,
                                    !.used = registry,
                                    !.fetchErr = e]
         IN IF FetchOutcome(e) # Nil
            THEN /\ pc' = [pc EXCEPT ![p] = "done"]
                 /\ inv' = [inv EXCEPT ![p] =
                              [seen EXCEPT !.err = FetchOutcome(e),
                                           !.failedAt = "fetch"]]
                 /\ UNCHANGED tmp
            ELSE /\ inv' = [inv EXCEPT ![p] = seen]
                 /\ tmp' = [tmp EXCEPT ![inv[p].tmpDir].fetched = TRUE]
                 /\ Goto(p, "worktree")
    /\ UNCHANGED <<dest, md, registry, env, calls>>
    /\ UNCHANGED enqVars

\* Lines 69-72: repository.Worktree() fails only on a bare repository, and
\* PlainInit made this one non-bare.
Worktree(p) ==
    /\ pc[p] = "worktree"
    /\ Goto(p, "resolverev")
    /\ UNCHANGED <<inv, tmp, dest, md, registry, env, calls>>
    /\ UNCHANGED enqVars

\* Mutant: an unresolved revision is reported as a fetch failure.
ResolveRevAsFetchFailure(p) ==
    /\ pc[p] = "resolverev"
    /\ LET h == ResolveRevision(ScratchRefs(p), inv[p].rev)
       IN IF h = 0
          THEN Fail(p, "resolverev",
                    Wrap(<<"reference not found">>,
                         "unable to fetch references for repository"))
          ELSE /\ inv' = [inv EXCEPT ![p].hash = h]
               /\ Goto(p, "checkout")
    /\ UNCHANGED <<tmp, dest, md, registry, env, calls>>
    /\ UNCHANGED enqVars

\* Lines 74-77: repository.ResolveRevision(gitRevision).
ResolveRev(p) ==
    /\ pc[p] = "resolverev"
    /\ LET h == ResolveRevision(ScratchRefs(p), inv[p].rev)
       IN IF h = 0
          THEN Fail(p, "resolverev",
                    Wrap(<<"reference not found">>, "resolving revision"))
          ELSE /\ inv' = [inv EXCEPT ![p].hash = h]
               /\ Goto(p, "checkout")
    /\ UNCHANGED <<tmp, dest, md, registry, env, calls>>
    /\ UNCHANGED enqVars

\* Mutant: the destination is removed before the checkout, not after it.
CheckoutAfterRemoveAll(p) ==
    /\ pc[p] = "checkout"
    /\ dest' = NoDir
    /\ \/ /\ Fail(p, "checkout",
                  Wrap(<<"object not found">>, "checking out revision"))
          /\ UNCHANGED tmp
       \/ /\ tmp' = [tmp EXCEPT ![inv[p].tmpDir].files =
                        @ \cup Tree(inv[p].hash)
                          \cup {GitIndex(inv[p].hash, inv[p].tmpDir)}]
          /\ Goto(p, "removeall")
          /\ UNCHANGED inv
    /\ UNCHANGED <<md, registry, env, calls>>
    /\ UNCHANGED enqVars

\* Lines 79-82: worktree.Checkout(hash) writes the commit's tree into the
\* scratch directory and the index into its .git.
Checkout(p) ==
    /\ pc[p] = "checkout"
    /\ \/ /\ Fail(p, "checkout",
                  Wrap(<<"object not found">>, "checking out revision"))
          /\ UNCHANGED tmp
       \/ /\ tmp' = [tmp EXCEPT ![inv[p].tmpDir].files =
                        @ \cup Tree(inv[p].hash)
                          \cup {GitIndex(inv[p].hash, inv[p].tmpDir)}]
          /\ Goto(p, "removeall")
          /\ UNCHANGED inv
    /\ UNCHANGED <<dest, md, registry, env, calls>>
    /\ UNCHANGED enqVars

\* Mutant: the metadata file is opened (and truncated) before the copy.
RemoveAllOpeningMetadata(p) ==
    /\ pc[p] = "removeall"
    /\ md' = [exists |-> TRUE, content |-> EmptyToml]
    /\ \/ /\ dest.exists
          /\ \E left \in Residues(dest.files) :
               dest' = [dest EXCEPT !.files = left]
          /\ Fail(p, "removeall",
                  Wrap(<<"unlinkat: permission denied">>, "removing directory"))
       \/ /\ dest' = NoDir
          /\ Goto(p, "copydir")
          /\ UNCHANGED inv
    /\ UNCHANGED <<tmp, registry, env, calls>>
    /\ UNCHANGED enqVars

\* Lines 84-88: os.RemoveAll(dir).  Removing a directory that does not
\* exist succeeds; a failure leaves the directory with a residue.
RemoveAll(p) ==
    /\ pc[p] = "removeall"
    /\ \/ /\ dest.exists
          /\ \E left \in Residues(dest.files) :
               dest' = [dest EXCEPT !.files = left]
          /\ Fail(p, "removeall",
                  Wrap(<<"unlinkat: permission denied">>, "removing directory"))
       \/ /\ dest' = NoDir
          /\ Goto(p, "copydir")
          /\ UNCHANGED inv
    /\ UNCHANGED <<tmp, md, registry, env, calls>>
    /\ UNCHANGED enqVars

\* os.MkdirAll(dstDir, mode): an existing directory is left as it is.
MkdirAll(d, mode) ==
    IF d.exists THEN d ELSE [exists |-> TRUE, mode |-> mode, files |-> {}]

\* Lines 90-94 and 172-190: the head of copyDir(dir, tmpDir): Stat,
\* MkdirAll, ReadDir and getFileInfos, up to the loop over the entries.
CopyDirBegin(p) ==
    /\ pc[p] = "copydir"
    /\ \/ /\ Fail(p, "copydir",
                  Wrap(<<"mkdir: permission denied">>, "copying directory"))
          /\ UNCHANGED dest
       \/ /\ dest' = MkdirAll(dest, Scratch(p).mode)
          /\ Fail(p, "copydir",
                  Wrap(<<"readdir: input/output error">>, "copying directory"))
       \/ /\ dest' = MkdirAll(dest, Scratch(p).mode)
          /\ inv' = [inv EXCEPT ![p].queue = CopyOrder(Scratch(p).files)]
          /\ Goto(p, "copyentry")
    /\ UNCHANGED <<tmp, md, registry, env, calls>>
    /\ UNCHANGED enqVars

\* Lines 192-207 (and 144-168, 171-208 for the entry itself): copy the next
\* entry of the scratch directory; the first error ends copyDir and Fetch.
CopyEntry(p) ==
    /\ pc[p] = "copyentry"
    /\ inv[p].queue # <<>>
    /\ \E r \in copyEntry(dest.files,
                          EntryAt(Scratch(p).files, Head(inv[p].queue))) :
         /\ dest' = [dest EXCEPT !.files = r.files]
         /\ IF r.err # Nil
            THEN Fail(p, "copyentry", Wrap(r.err, "copying directory"))
            ELSE /\ inv' = [inv EXCEPT ![p].queue = Tail(@)]
                 /\ Goto(p, IF Tail(inv[p].queue) = <<>>
                            THEN "create" ELSE "copyentry")
    /\ UNCHANGED <<tmp, md, registry, env, calls>>
    /\ UNCHANGED enqVars

\* Lines 96-101: os.Create(metadataDir/project-metadata.toml) truncates.
CreateMetadata(p) ==
    /\ pc[p] = "create"
    /\ \/ /\ Fail(p, "create",
                  Wrap(<<"open: no such file or directory">>,
                       MetadataMsg(inv[p].url)))
          /\ UNCHANGED md
       \/ /\ md' = [exists |-> TRUE, content |-> EmptyToml]
          /\ Goto(p, "encode")
          /\ UNCHANGED inv
    /\ UNCHANGED <<tmp, dest, registry, env, calls>>
    /\ UNCHANGED enqVars

\* Lines 103-120: encode the project struct into the file; return nil.
Encode(p) ==
    /\ pc[p] = "encode"
    /\ \/ /\ Fail(p, "encode",
                  Wrap(<<"write: no space left on device">>,
                       MetadataMsg(inv[p].rev)))
          /\ UNCHANGED md
       \/ /\ md' = [md EXCEPT !.content =
                       project(inv[p].url, inv[p].rev, inv[p].hash)]
          /\ pc' = [pc EXCEPT ![p] = "done"]
          /\ UNCHANGED inv
    /\ UNCHANGED <<tmp, dest, registry, env, calls>>
    /\ UNCHANGED enqVars

\* The caller takes Fetch's result; the invocation's locals are gone.
Return(p) ==
    /\ pc[p] = "done"
    /\ pc' = [pc EXCEPT ![p] = "idle"]
    /\ inv' = [inv EXCEPT ![p] = IdleInv]
    /\ UNCHANGED <<tmp, dest, md, registry, env, calls>>
    /\ UNCHANGED enqVars

(* ------------------------------------------------------------------ *)
(* The environment.                                                    *)
(* ------------------------------------------------------------------ *)

\* HTTPS_PROXY is set, changed or unset between invocations.
Setenv ==
    /\ \A p \in Procs : pc[p] = "idle"
    /\ \E e \in EnvValues : e # env /\ env' = e
    /\ UNCHANGED <<pc, inv, tmp, dest, md, registry, calls>>
    /\ UNCHANGED enqVars

(* ------------------------------------------------------------------ *)
(* Specifications.                                                     *)
(* ------------------------------------------------------------------ *)

\* No other invocation is running.
Alone(p) == \A q \in Procs \ {p} : pc[q] = "idle"

Step(p) ==
    \/ Resolve(p)
    \/ MkdirTemp(p)
    \/ PlainInit(p)
    \/ CreateRemote(p)
    \/ Transport(p)
    \/ RemoteFetch(p)
    \/ Worktree(p)
    \/ ResolveRev(p)
    \/ Checkout(p)
    \/ RemoveAll(p)
    \/ CopyDirBegin(p)
    \/ CopyEntry(p)
    \/ CreateMetadata(p)
    \/ Encode(p)
    \/ Return(p)

\* The caller invokes Fetch when no invocation is running.
CallInTurn ==
    \E u \in URLs, r \in Revisions : Alone(Caller) /\ Call(Caller, u, r)

\* Invocations one after the other.
Next ==
    \/ CallInTurn
    \/ \E p \in Procs : Step(p)
    \/ Setenv

Spec == Init /\ [][Next]_vars

\* Two goroutines invoke Fetch once each, for the same repository, revision
\* and directories: the caller first, the other at any moment after that,
\* while the caller's invocation runs or after it.
CallConcurrently ==
    \/ calls = 0 /\ Call(Caller, "https://h/pub", "main")
    \/ calls = 1 /\ Call("other", "https://h/pub", "main")

\* Invocations of two goroutines, their statements interleaved in any way.
NextConc ==
    \/ CallConcurrently
    \/ \E p \in Procs : Step(p)
    \/ Setenv

SpecConc == Init /\ [][NextConc]_vars

(* ------------------------------------------------------------------ *)
(* The source resolver's enqueuer.  Durations are in seconds.          *)
(* ------------------------------------------------------------------ *)

\* Calls of Enqueue in a behaviour.
MaxEnqueues == 3

\* time.Minute
Minute == 60

\* Values of the enqueuer's delay field.
Delays == {0, 30, Minute, 3600}

\* The SourceResolvers handed to Enqueue.
SourceResolvers == {"sr-a", "sr-b", "sr-c"}

\* Mutant: the re-enqueue is scheduled after the configured delay.
EnqueueAfterDelay(sr) ==
    /\ Len(returned) < MaxEnqueues
    /\ workqueue' = Append(workqueue, [obj |-> sr, after |-> enqueuer.delay])
    /\ returned' = Append(returned, [sr |-> sr, err |-> Nil])
    /\ UNCHANGED enqueuer
    /\ UNCHANGED fetchVars

\* Enqueue: e.enqueueAfter(sr, 1*time.Minute); return nil.
Enqueue(sr) ==
    /\ Len(returned) < MaxEnqueues
    /\ workqueue' = Append(workqueue, [obj |-> sr, after |-> 1 * Minute])
    /\ returned' = Append(returned, [sr |-> sr, err |-> Nil])
    /\ UNCHANGED enqueuer
    /\ UNCHANGED fetchVars

\* An enqueuer constructed with any delay, nothing scheduled yet, and no
\* Fetch at work.
InitEnq ==
    /\ pc = [p \in Procs |-> "idle"]
    /\ inv = [p \in Procs |-> IdleInv]
    /\ tmp = <<>>
    /\ dest = NoDir
    /\ md = NoFile
    /\ registry = DefaultClient
    /\ env = [exists |-> FALSE, value |-> <<>>]
    /\ calls = 0
    /\ enqueuer \in [delay : Delays]
    /\ workqueue = <<>>
    /\ returned = <<>>

NextEnq == \E sr \in SourceResolvers : Enqueue(sr)

SpecEnq == InitEnq /\ [][NextEnq]_vars

(* ------------------------------------------------------------------ *)
(* Properties.                                                         *)
(* ------------------------------------------------------------------ *)

\* Statements that precede os.RemoveAll(dir).
StagesBeforeRemoval ==
    {"resolve", "mkdirtemp", "plaininit", "createremote", "transport",
     "fetch", "worktree", "resolverev", "checkout"}

\* Statements that precede the encoding of the metadata.
StagesBeforeEncode ==
    StagesBeforeRemoval \cup {"removeall", "copydir", "copyentry", "create"}

\* Fetch has returned to its caller.
Returned(p) == pc[p] = "done"

\* Fetch has returned an error from one of the named stages.
FailedIn(p, stages) == Returned(p) /\ inv[p].failedAt \in stages

\* C1: a Fetch that fails at any stage up to and including the checkout
\* returns with the destination exactly as it was when Fetch was called,
\* and the destination is untouched for as long as Fetch has not passed
\* the checkout.
C1_PreSuccessNonMutation ==
    \A p \in Procs :
        (FailedIn(p, StagesBeforeRemoval) \/ pc[p] \in StagesBeforeRemoval
            \/ pc[p] = "removeall")
            => dest = inv[p].dest0

\* C1 witness: a checkout failed over a destination that held files.
C1_Witness ==
    \E p \in Procs :
        /\ FailedIn(p, {"checkout"})
        /\ inv[p].dest0.exists /\ inv[p].dest0.files # {}
        /\ dest = inv[p].dest0

\* The commits whose complete working tree is in the destination.
DestCommits == {h \in Hashes : dest.exists /\ Tree(h) \subseteq dest.files}

\* C2 (as claimed): between invocations, a complete metadata file names
\* the commit whose tree the destination holds.
C2_MetadataTracksWorkspace ==
    (pc[Caller] \in {"idle", "done"} /\ md.exists /\ md.content # EmptyToml)
        => \A h \in DestCommits : md.content.commit = HashString(h)

\* C3: when Fetch returns nil, the commit in project-metadata.toml is the
\* hash that was resolved from the fetched refs and checked out in the
\* scratch directory that was copied into the destination.
C3_MetadataCommitAgreement ==
    \A p \in Procs :
        (Returned(p) /\ inv[p].err = Nil) =>
            /\ inv[p].hash \in Hashes
            /\ md.exists
            /\ md.content.commit = HashString(inv[p].hash)
            /\ Tree(inv[p].hash) \subseteq Scratch(p).files
            /\ \A h \in Hashes \ {inv[p].hash} :
                 ~(Tree(h) \subseteq Scratch(p).files)
            /\ dest.files = Scratch(p).files

\* C3 witness: a successful fetch of a branch whose name is not the commit.
C3_Witness ==
    \E p \in Procs :
        /\ Returned(p) /\ inv[p].err = Nil
        /\ inv[p].rev = "main" /\ inv[p].hash = 17
        /\ md.content.commit = "11"

\* The complete new tree of an invocation: the scratch directory's
\* contents, with or without the repository's metadata directory.
IsNewTree(p, d) ==
    /\ inv[p].tmpDir # 0 /\ inv[p].hash # 0
    /\ d.exists
    /\ \/ d.files = Scratch(p).files
       \/ d.files = {f \in Scratch(p).files : ~InGitDir(f)}

\* C4 (as claimed): whenever Fetch returns, the destination holds the
\* complete prior contents or the complete new tree.
C4_OldOrNewNeverPartial ==
    \A p \in Procs :
        Returned(p) => (dest = inv[p].dest0 \/ IsNewTree(p, dest))

\* C5 (as claimed): after a successful Fetch the destination holds no
\* entry of the repository's metadata directory.
C5_NoGitDirInDestination ==
    \A p \in Procs :
        (Returned(p) /\ inv[p].err = Nil) =>
            ~\E f \in dest.files : InGitDir(f)

\* C6 (as claimed): when Fetch returns, the scratch directory it created
\* no longer exists.
C6_ScratchDeletedOnReturn ==
    \A p \in Procs :
        (Returned(p) /\ inv[p].tmpDir # 0) => ~Scratch(p).exists

\* remote.Fetch has been called and returned an error.
FetchFailed(p) == inv[p].netCalls > 0 /\ inv[p].fetchErr # Nil

\* C7: when remote.Fetch returns the authentication-required error, Fetch
\* returns the invalid-credentials error; when it returns any other error,
\* Fetch returns the unable-to-fetch error; every fetch error ends Fetch
\* with exactly one of the two.
C7_FetchOutcomeClassification ==
    \A p \in Procs :
        FetchFailed(p) =>
            /\ FailedIn(p, {"fetch"})
            /\ inv[p].fetchErr = ErrAuthenticationRequired =>
                 inv[p].err = Wrap(ErrAuthenticationRequired,
                                   "invalid credentials for repository")
            /\ inv[p].fetchErr # ErrAuthenticationRequired =>
                 inv[p].err = Wrap(inv[p].fetchErr,
                                   "unable to fetch references for repository")
            /\ (Head(inv[p].err) = "invalid credentials for repository")
                 # (Head(inv[p].err) = "unable to fetch references for repository")

\* C7 witness: a wrong credential for the private repository was refused.
C7_Witness ==
    \E p \in Procs :
        /\ Returned(p)
        /\ inv[p].auth = "basic:bad" /\ Private(inv[p].url)
        /\ inv[p].fetchErr = ErrAuthenticationRequired
        /\ Head(inv[p].err) = "invalid credentials for repository"

\* Messages Fetch puts on a failure of remote.Fetch.
FetchMessages ==
    {"invalid credentials for repository",
     "unable to fetch references for repository"}

\* Fetch is at, or has failed at, the resolution of the revision.
AtResolveRev(p) == pc[p] = "resolverev" \/ FailedIn(p, {"resolverev"})

\* C8: the revision is resolved only after remote.Fetch succeeded; a
\* revision that does not resolve against the fetched refs makes Fetch
\* return the resolving-revision error, which is no fetch or credentials
\* error, and no failure of remote.Fetch is reported as that error.
C8_RevisionErrorDistinct ==
    \A p \in Procs :
        /\ AtResolveRev(p) => (inv[p].netCalls = 1 /\ inv[p].fetchErr = Nil)
        /\ (Returned(p) /\ inv[p].netCalls = 1 /\ inv[p].fetchErr = Nil
                /\ ResolveRevision(ScratchRefs(p), inv[p].rev) = 0)
             => /\ inv[p].failedAt = "resolverev"
                /\ inv[p].err = Wrap(<<"reference not found">>, "resolving revision")
                /\ Head(inv[p].err) \notin FetchMessages
        /\ FailedIn(p, StagesBeforeRemoval \ {"resolverev"})
             => Head(inv[p].err) # "resolving revision"

\* C8 witness: a branch that does not exist, after a fetch that worked.
C8_Witness ==
    \E p \in Procs :
        /\ FailedIn(p, {"resolverev"})
        /\ inv[p].rev = "refs/heads/does-not-exist"
        /\ inv[p].netCalls = 1 /\ inv[p].fetchErr = Nil
        /\ Head(inv[p].err) = "resolving revision"

\* The invocation read a value of HTTPS_PROXY that url.Parse rejects.
ReadBadProxy(p) ==
    inv[p].envRead.exists /\ ParsedProxy[inv[p].envRead.value].err # Nil

\* HTTPS_PROXY holds a value that url.Parse rejects.
BadProxySet == env.exists /\ ParsedProxy[env.value].err # Nil

\* Statements that follow the building of the transport.
StagesAfterTransport ==
    (StagesBeforeEncode \cup {"encode"}) \
        {"resolve", "mkdirtemp", "plaininit", "createremote", "transport"}

\* C9: when HTTPS_PROXY holds a value that does not parse, the invocation
\* that reads it returns the parse error, having built and installed no
\* transport and made no network call; and whatever stage an invocation
\* under such a value ends at, it never gets past the building of the
\* transport, installs nothing and makes no network call.
C9_ProxyFailFast ==
    \A p \in Procs :
        /\ ReadBadProxy(p) =>
              /\ FailedIn(p, {"transport"})
              /\ inv[p].err = Wrap(ParsedProxy[inv[p].envRead.value].err,
                                   "parsing HTTPS_PROXY url")
              /\ inv[p].transport = NoTransport
              /\ registry = inv[p].registry0
              /\ inv[p].netCalls = 0 /\ inv[p].used = NoTransport
        /\ (BadProxySet /\ pc[p] # "idle") =>
              /\ pc[p] \notin StagesAfterTransport
              /\ inv[p].failedAt \notin StagesAfterTransport
              /\ inv[p].err # Nil \/ ~Returned(p)
              /\ registry = inv[p].registry0
              /\ inv[p].netCalls = 0

\* C9 witness: a bad proxy value met a registry that an earlier invocation
\* had left a proxy transport in.
C9_Witness ==
    \E p \in Procs :
        /\ ReadBadProxy(p) /\ Returned(p)
        /\ registry.kind = "proxy"
        /\ inv[p].netCalls = 0

\* C10: a Fetch that fails before the metadata is encoded (credentials,
\* revision, copy, ...) leaves project-metadata.toml as it was when Fetch
\* was called: the file is opened only after the copy succeeded.
C10_MetadataUntouchedOnEarlyFailure ==
    \A p \in Procs :
        (pc[p] \in StagesBeforeEncode \/ FailedIn(p, StagesBeforeEncode))
            => md = inv[p].md0

\* C10 witness: invalid credentials, with an earlier fetch's metadata file
\* in place and unchanged.
C10_Witness ==
    \E p \in Procs :
        /\ FailedIn(p, {"fetch"})
        /\ inv[p].fetchErr = ErrAuthenticationRequired
        /\ inv[p].md0.exists /\ inv[p].md0.content # EmptyToml
        /\ md = inv[p].md0

\* The statements of Fetch in the order of the source.
StageOrder ==
    <<"resolve", "mkdirtemp", "plaininit", "createremote", "transport",
      "fetch", "worktree", "resolverev", "checkout", "removeall", "copydir",
      "copyentry", "create", "encode">>

Stages == {StageOrder[i] : i \in 1..Len(StageOrder)}

\* The statement that follows s when s succeeds; the last one returns.
NextStage(s) ==
    LET i == IndexOf(StageOrder, s)
    IN IF i < Len(StageOrder) THEN StageOrder[i + 1] ELSE "done"

\* One step of invocation p from statement s: it goes on to the next
\* statement without an error, or copies the next entry of the same copy, or
\* returns the error of s, or returns nil from the last statement.
StageStep(p) ==
    LET s == pc[p]
        t == pc'[p]
        a == inv[p]
        b == inv'[p]
    IN \/ /\ t = NextStage(s)
          /\ s # "encode"
          /\ b.err = Nil /\ b.failedAt = ""
       \/ /\ s = "copyentry" /\ t = s
          /\ b.queue = Tail(a.queue)
          /\ b.err = Nil /\ b.failedAt = ""
       \/ /\ t = "done"
          /\ b.err # Nil /\ b.failedAt = s
       \/ /\ s = "encode" /\ t = "done"
          /\ b.err = Nil /\ b.failedAt = ""

\* C11: every statement of Fetch is attempted at most once and in the order
\* of the source; the first failing statement ends the invocation with its
\* non-nil error and nothing after it runs; nil is returned only from the
\* last statement, after every one before it succeeded; the remote is
\* fetched from at most once.
C11_StageAbortWithoutRetry ==
    [][\A p \in Procs :
         /\ (pc[p] \in Stages /\ (pc'[p] # pc[p] \/ inv'[p] # inv[p]))
              => StageStep(p)
         /\ pc[p] = "done" =>
              \/ pc'[p] = "done" /\ inv'[p] = inv[p]
              \/ pc'[p] = "idle"
         /\ inv'[p].netCalls <= 1]_vars

C11_Witness ==
    \E p \in Procs :
        /\ FailedIn(p, {"fetch"})
        /\ inv[p].netCalls = 1
        /\ inv[p].hash = 0
        /\ dest = inv[p].dest0 /\ md = inv[p].md0

\* The statements of Fetch behind each stage that is named to the operator.
NamedStages ==
    [credentials |-> {"resolve"},
     proxy |-> {"transport"},
     fetch |-> {"fetch"},
     revision |-> {"resolverev"},
     checkout |-> {"checkout"},
     materialization |-> {"removeall", "copydir", "copyentry"},
     metadata |-> {"create", "encode"}]

\* The messages the source wraps a failure of each named stage in; lines 32
\* and 55 return the error of Keychain.Resolve and of getHttpsTransport as
\* they are, the latter carrying the message of line 127.
StageMessages ==
    [credentials |-> {},
     proxy |-> {"parsing HTTPS_PROXY url"},
     fetch |-> FetchMessages,
     revision |-> {"resolving revision"},
     checkout |-> {"checking out revision"},
     materialization |-> {"removing directory", "copying directory"},
     metadata |-> {MetadataMsg(u) : u \in URLs}
                     \cup {MetadataMsg(r) : r \in Revisions}]

\* The message put on top of the underlying failure, "" when the error Fetch
\* returns is the underlying failure alone.
AddedContext(err) == IF Len(err) >= 2 THEN Head(err) ELSE ""

\* C12: a failure of a named stage is returned with a message on top of the
\* underlying failure, and that message is one of the failing stage and of
\* no other named stage.
C12_StageSpecificContext ==
    \A p \in Procs : \A g \in DOMAIN NamedStages :
        FailedIn(p, NamedStages[g]) =>
            /\ AddedContext(inv[p].err) # ""
            /\ AddedContext(inv[p].err) \in StageMessages[g]
            /\ \A h \in DOMAIN NamedStages \ {g} :
                 AddedContext(inv[p].err) \notin StageMessages[h]

\* C13: when Fetch returns nil, project-metadata.toml holds source type
\* "git", the URL as it was passed, the revision as it was requested (not
\* the hash it resolved to) and the full id of the commit the revision
\* resolves to at the remote.
C13_MetadataRecord ==
    \A p \in Procs :
        (Returned(p) /\ inv[p].err = Nil) =>
            /\ md.exists
            /\ md.content.type = "git"
            /\ md.content.repository = inv[p].url
            /\ md.content.revision = inv[p].rev
            /\ md.content.commit =
                 HashString(ResolveRevision(RemoteRefs, inv[p].rev))

\* C13 witness: a branch name is recorded as the revision, next to the
\* commit it resolved to.
C13_Witness ==
    \E p \in Procs :
        /\ Returned(p) /\ inv[p].err = Nil
        /\ inv[p].url = "https://h/priv" /\ inv[p].rev = "main"
        /\ md = [exists |-> TRUE,
                 content |-> [type |-> "git", repository |-> "https://h/priv",
                              revision |-> "main", commit |-> "11"]]

\* The working tree worktree.Checkout wrote into the scratch directory of
\* invocation p: what the directory holds apart from the repository's
\* metadata directory.
WorkingTree(p) == {f \in Scratch(p).files : ~InGitDir(f)}

\* C14 (as claimed): when Fetch returns nil, whatever the destination held
\* before, its paths are the paths of the scratch working tree, every entry
\* has the data and the permission bits of the entry it was copied from, and
\* nothing that only the prior contents had is left.
C14_MaterializationFidelity ==
    \A p \in Procs :
        (Returned(p) /\ inv[p].err = Nil) =>
            /\ Paths(dest.files) = Paths(WorkingTree(p))
            /\ \A f \in dest.files : f \in Scratch(p).files
            /\ \A f \in inv[p].dest0.files :
                 f.path \notin Paths(Scratch(p).files) => f \notin dest.files

\* Invocation p was called on the outcome of an earlier successful
\* invocation with the same URL and revision that resolved to the same
\* commit: the metadata file recorded them and the destination was the
\* complete copy of an earlier scratch directory holding that commit.
CalledOnSameFetch(p) ==
    /\ inv[p].md0 = [exists |-> TRUE,
                     content |-> [type |-> "git",
                                  repository |-> inv[p].url,
                                  revision |-> inv[p].rev,
                                  commit |-> HashString(inv[p].hash)]]
    /\ inv[p].dest0.exists
    /\ \E i \in 1..Len(tmp) :
         /\ i # inv[p].tmpDir
         /\ Tree(inv[p].hash) \subseteq tmp[i].files
         /\ inv[p].dest0.files = tmp[i].files

\* C15 (as claimed): two successful invocations with the same URL and
\* revision that resolve to the same commit leave the same destination
\* (paths, data, permission bits) and the same commit in the metadata file.
C15_Determinism ==
    \A p \in Procs :
        (Returned(p) /\ inv[p].err = Nil /\ CalledOnSameFetch(p)) =>
            /\ dest = inv[p].dest0
            /\ md.content.commit = inv[p].md0.content.commit

\* C16: the https transport is a process-wide registry entry, last writer
\* wins: an invocation that installs a transport overwrites the entry with
\* the one it built, whatever was there, and remote.Fetch runs with the
\* entry as it is at that moment, whoever installed it.
C16_RegistryLastWriterWins ==
    [][\A p \in Procs :
         /\ (pc[p] = "transport" /\ pc'[p] = "fetch")
              => registry' = inv'[p].transport
         /\ (pc[p] = "fetch" /\ inv'[p].netCalls = inv[p].netCalls + 1)
              => inv'[p].used = registry]_vars

\* C16 witness: the remote fetch of one invocation has run with the
\* transport that the other, still running, invocation built and installed,
\* not with the one it built itself.
C16_Witness ==
    \E p \in Procs : \E q \in Procs \ {p} :
        /\ inv[p].netCalls = 1
        /\ inv[q].transport # NoTransport
        /\ inv[p].used = inv[q].transport
        /\ inv[p].used # inv[p].transport
        /\ inv[p].used.builtBy = q

\* C17: an invocation makes its scratch directory once, and it is a new one:
\* none of the directories made before it, which it leaves as they were; it
\* keeps that directory until it returns; two running invocations never have
\* the same one; and a step changes a scratch directory only when it is a
\* step of the invocation that made it.
C17_OneFreshScratchEach ==
    [][/\ \A p \in Procs :
            /\ inv'[p].tmpDir # inv[p].tmpDir =>
                 \/ /\ pc[p] = "mkdirtemp" /\ inv[p].tmpDir = 0
                    /\ inv'[p].tmpDir \notin 1..Len(tmp)
                    /\ inv'[p].tmpDir \in 1..Len(tmp')
                    /\ Len(tmp') = Len(tmp) + 1
                    /\ SubSeq(tmp', 1, Len(tmp)) = tmp
                 \/ pc[p] = "done" /\ pc'[p] = "idle"
            /\ \A q \in Procs \ {p} :
                 inv'[p].tmpDir # 0 => inv'[p].tmpDir # inv'[q].tmpDir
       /\ \A i \in 1..Len(tmp) :
            tmp'[i] # tmp[i] =>
                \E p \in Procs : inv[p].tmpDir = i /\ pc'[p] # pc[p]]_vars

\* C17 witness: two invocations run at once, each on a scratch clone of its
\* own, one fetched into and the other not yet.
C17_Witness ==
    \E p \in Procs : \E q \in Procs \ {p} :
        /\ inv[p].tmpDir = 1 /\ inv[q].tmpDir = 2
        /\ pc[p] \in Stages /\ pc[q] \in Stages
        /\ Scratch(p).fetched /\ ~Scratch(q).fetched
        /\ Scratch(q).files # {}

\* C18: when Keychain.Resolve fails, Fetch returns that error as it is and
\* has done nothing else: no scratch directory made, HTTPS_PROXY not read,
\* no transport built or installed, the remote not contacted, the
\* destination and the metadata file as they were at the call.
C18_ResolveFailureDoesNothing ==
    \A p \in Procs :
        FailedIn(p, {"resolve"}) =>
            /\ inv[p].err = <<"keychain: malformed secret">>
            /\ inv[p].tmpDir = 0
            /\ Len(tmp) < calls
            /\ ~inv[p].envRead.exists
            /\ inv[p].transport = NoTransport
            /\ registry = inv[p].registry0
            /\ inv[p].netCalls = 0
            /\ dest = inv[p].dest0
            /\ md = inv[p].md0

\* C18 witness: the keychain fails in a second invocation, after a first
\* one left a workspace, a metadata file and a proxy transport behind.
C18_Witness ==
    \E p \in Procs :
        /\ FailedIn(p, {"resolve"})
        /\ calls = 2 /\ Len(tmp) = 1
        /\ dest.exists /\ md.exists
        /\ registry.kind = "proxy"

\* Invocation p is past the building of its transport.
PastTransport(p) ==
    \/ pc[p] \in StagesAfterTransport
    \/ (Returned(p) /\ inv[p].err = Nil)
    \/ FailedIn(p, StagesAfterTransport)

\* C19: an invocation that read no HTTPS_PROXY in the environment built the
\* library's default https client; one that read a value that parses built
\* a client whose proxy is the parsed value and which does not follow
\* redirects; either way a transport was built.
C19_TransportSelection ==
    \A p \in Procs :
        PastTransport(p) =>
            /\ ~inv[p].envRead.exists =>
                 /\ inv[p].transport.kind = "default"
                 /\ inv[p].transport = DefaultClient
            /\ inv[p].envRead.exists =>
                 /\ ParsedProxy[inv[p].envRead.value].err = Nil
                 /\ inv[p].transport.kind = "proxy"
                 /\ inv[p].transport.proxy = ParsedProxy[inv[p].envRead.value].url
                 /\ ~inv[p].transport.followRedirects

\* C19 witness: a fetch over the client built for HTTPS_PROXY=h://p.
C19_Witness ==
    \E p \in Procs :
        /\ PastTransport(p) /\ inv[p].netCalls = 1
        /\ inv[p].envRead = [exists |-> TRUE,
                             value |-> <<"h", ":", "/", "/", "p">>]
        /\ inv[p].transport.proxy.scheme = <<"h">>
        /\ inv[p].transport.proxy.host = <<"p">>
        /\ inv[p].used = inv[p].transport

\* C20: an invocation to which the keychain gave no credential (and no
\* error) does not fail at the keychain; its remote.Fetch is made without a
\* credential, so that a private repository answers authentication required
\* and a public one can be fetched; if it fails, it fails at a later
\* statement with that statement's error.
C20_AnonymousProceeds ==
    \A p \in Procs :
        inv[p].auth = "anonymous" =>
            /\ pc[p] \in (Stages \ {"resolve"}) \cup {"done"}
            /\ inv[p].failedAt # "resolve"
            /\ inv[p].netCalls > 0 =>
                 /\ Private(inv[p].url) =>
                      inv[p].fetchErr \in
                          OtherFetchErrors \cup {ErrAuthenticationRequired}
                 /\ ~Private(inv[p].url) =>
                      inv[p].fetchErr \in OtherFetchErrors \cup {Nil}
            /\ (Returned(p) /\ inv[p].err # Nil) =>
                 inv[p].failedAt \in Stages \ {"resolve"}

\* C20 witness: a public repository fetched without a credential, up to the
\* nil return.
C20_Witness ==
    \E p \in Procs :
        /\ inv[p].auth = "anonymous" /\ ~Private(inv[p].url)
        /\ inv[p].netCalls = 1 /\ inv[p].fetchErr = Nil
        /\ Returned(p) /\ inv[p].err = Nil

\* C21: every call of Enqueue has scheduled exactly one re-enqueue, of the
\* SourceResolver it was given, after one minute (60 s) whatever the delay
\* field of the enqueuer holds, and has returned nil.
C21_EnqueueAfterOneMinute ==
    /\ Len(workqueue) = Len(returned)
    /\ \A i \in 1..Len(returned) :
         /\ workqueue[i].obj = returned[i].sr
         /\ workqueue[i].after = 60
         /\ returned[i].err = <<>>

\* C21 witness: two calls on an enqueuer whose delay is an hour, for
\* different SourceResolvers, each scheduled after a minute.
C21_Witness ==
    /\ enqueuer.delay = 3600
    /\ Len(returned) = 2
    /\ returned[1].sr = "sr-a" /\ returned[2].sr = "sr-b"
    /\ workqueue = << [obj |-> "sr-a", after |-> 60],
                      [obj |-> "sr-b", after |-> 60] >>

\* C22: when invocations follow one another, remote.Fetch runs with the
\* transport its own invocation built from the HTTPS_PROXY it read: the
\* default client when the variable was unset, a client for the parsed
\* value when it was set; a different transport that an earlier invocation
\* left in the registry is never the one used.
C22_FetchUsesOwnTransport ==
    \A p \in Procs :
        inv[p].netCalls > 0 =>
            /\ inv[p].used = inv[p].transport
            /\ inv[p].used # NoTransport
            /\ ~inv[p].envRead.exists => inv[p].used = DefaultClient
            /\ inv[p].envRead.exists =>
                 /\ inv[p].used.kind = "proxy"
                 /\ inv[p].used.proxy = ParsedProxy[inv[p].envRead.value].url
            /\ inv[p].registry0 # inv[p].transport =>
                 inv[p].used # inv[p].registry0

\* C22 witness: an earlier invocation left a proxy transport installed,
\* HTTPS_PROXY was unset since, and this invocation fetched with the default
\* client.
C22_Witness ==
    \E p \in Procs :
        /\ inv[p].netCalls = 1
        /\ inv[p].registry0.kind = "proxy"
        /\ ~inv[p].envRead.exists
        /\ inv[p].used = DefaultClient

====
